---- MODULE Spec2Model ----
(***************************************************************************)
(* Medallion weather pipeline: landing-zone fetch, bronze transform,       *)
(* silver merge, golden analytics, and the two orchestrations (the         *)
(* scheduled DAG and the ad-hoc runner).                                   *)
(*                                                                         *)
(* The filesystem is a function from file paths to contents plus a set of  *)
(* directories.  A path is the sequence of its components.  Every stage    *)
(* function is one action: its argument evaluation, its directory          *)
(* creation, its reads and its writes happen in the order of the source,   *)
(* and an exception ends the action with whatever was done before it.      *)
(***************************************************************************)
EXTENDS Integers, Sequences, FiniteSets, TLC

VARIABLES fs, dirs, nuuid, nmerged, last, input, output, task

vars == <<fs, dirs, nuuid, nmerged, last, input, output, task>>

(***************************************************************************)
(* Bounds of the model.                                                    *)
(***************************************************************************)
MaxMerges == 2
MaxHour == 11
MaxLen == 2
MaxRows == 3
MaxWindRows == 4

(***************************************************************************)
(* Results of a call: a value, or the exception that ended it.             *)
(***************************************************************************)
Ok(v) == [ok |-> TRUE, val |-> v, err |-> "none"]

Err(e) == [ok |-> FALSE, val |-> <<>>, err |-> e]

None == [kind |-> "none"]

(***************************************************************************)
(* Execution-time values.  The DAG hands every task the rendered template  *)
(* "{{ ds }}", a date string; the runner hands every stage the             *)
(* datetime.datetime object current_dt.                                    *)
(***************************************************************************)
StrTime(s) == [type |-> "str", text |-> s]

DateTime(d, h, us) == [type |-> "datetime", date |-> d, hour |-> h, micro |-> us]

Dates == {"2024-01-01", "2024-01-02", "2024-01-03"}

Micros == {0, 250000}

Pad2(n) == IF n < 10 THEN "0" \o ToString(n) ELSE ToString(n)

\* datetime.isoformat(): YYYY-MM-DDTHH:MM:SS, with .ffffff when the
\* microsecond is not zero (minutes and seconds are held at zero here).
Isoformat(x) ==
    IF x.type = "datetime"
    THEN Ok(x.date \o "T" \o Pad2(x.hour) \o ":00:00"
              \o (IF x.micro = 0 THEN "" ELSE "." \o ToString(x.micro)))
    ELSE Err("AttributeError")

\* pathlib: Path / str is the path with one more component; Path / <any
\* other object> raises TypeError.
PathDiv(path, x) ==
    IF x.type = "str" THEN Ok(Append(path, x.text)) ELSE Err("TypeError")

landing_zone_path == <<"landing_zone">>

bronze_layer_path == <<"bronze_layer">>

silver_layer_path == <<"silver_layer">>

golden_layer_path == <<"golden_layer">>

Prefixes == {"weather_data", "air_quality_data"}

(***************************************************************************)
(* The run directory each stage derives from its execution_time argument.  *)
(***************************************************************************)
\* A mutant of the landing layout: no directory per indicator-set.
LandingWritePathWithoutPrefix(base, execution_time, prefix) ==
    PathDiv(base, execution_time)

\* landing_zone._get_path_to_write: base_output_path / execution_time / prefix
LandingWritePath(base, execution_time, prefix) ==
    LET run == PathDiv(base, execution_time)
    IN  IF run.ok THEN Ok(Append(run.val, prefix)) ELSE run

\* bronze_layer._get_input_path:
\* base_input_path / execution_time / prefix / f"{city_name}.json"
BronzeInputPath(base, execution_time, prefix, city_name) ==
    LET run == PathDiv(base, execution_time)
    IN  IF run.ok
        THEN Ok(Append(Append(run.val, prefix), city_name \o ".json"))
        ELSE run

\* A mutant of the bronze layout: the prefix directory above the run.
BronzeOutputPathPrefixFirst(base, execution_time, prefix) ==
    PathDiv(Append(base, prefix), execution_time)

\* bronze_layer._get_output_path: base_output_path / execution_time / prefix
BronzeOutputPath(base, execution_time, prefix) ==
    LET run == PathDiv(base, execution_time)
    IN  IF run.ok THEN Ok(Append(run.val, prefix)) ELSE run

\* silver_layer._get_input_path:
\* base_input_path / execution_time.isoformat() / prefix
SilverInputPath(base, execution_time, prefix) ==
    LET iso == Isoformat(execution_time)
    IN  IF iso.ok THEN Ok(Append(Append(base, iso.val), prefix)) ELSE iso

\* silver_layer._get_output_path: base_output_path / execution_time.isoformat()
SilverOutputPath(base, execution_time) ==
    LET iso == Isoformat(execution_time)
    IN  IF iso.ok THEN Ok(Append(base, iso.val)) ELSE iso

\* golden_layer.calculate_analytics: base_input_path / execution_time
GoldenInputPath(base, execution_time) == PathDiv(base, execution_time)

\* golden_layer._get_output_path: base_output_path / execution_time
GoldenOutputPath(base, execution_time) == PathDiv(base, execution_time)

\* Path.mkdir(parents=True, exist_ok=True): the directory and its parents.
Mkdir(ds, path) == ds \cup {SubSeq(path, 1, n) : n \in 1..Len(path)}

(***************************************************************************)
(* Cities (demo_project_dag.py and simple_runner.py hold the same three    *)
(* points; the runner spells two names with an apostrophe).  Coordinates   *)
(* are in thousandths of a degree.                                         *)
(***************************************************************************)
\* The cities of the stage-by-stage specification.
NumCities == 1

\* The cities whose bronze files the merge specification joins.
NumJoinCities == 2

cities ==
    << [latitude |-> 50450, longitude |-> 30524, name |-> "Kyiv"],
       [latitude |-> 44616, longitude |-> 33525, name |-> "Sevastopol"],
       [latitude |-> 48015, longitude |-> 37802, name |-> "Donetsk"] >>

runner_cities ==
    << [latitude |-> 50450, longitude |-> 30524, name |-> "Kyiv"],
       [latitude |-> 44616, longitude |-> 33525, name |-> "Sevastopol'"],
       [latitude |-> 48015, longitude |-> 37802, name |-> "Donets'k"] >>

\* The cities the stage invocations of Spec are made for.
Cities == {cities[i] : i \in 1..NumCities}

(***************************************************************************)
(* Values of a column: a number, or null (JSON null, polars null).         *)
(***************************************************************************)
Val(n) == [null |-> FALSE, v |-> n]

Null == [null |-> TRUE, v |-> 0]

(***************************************************************************)
(* File contents and HTTP responses.  A response body is a byte string:    *)
(* either it decodes as UTF-8 to a text, or it does not.  A text is a JSON *)
(* document or the empty text (which is not JSON).                         *)
(***************************************************************************)
EmptyText == [kind |-> "text", json |-> FALSE, doc |-> None]

JsonText(doc) == [kind |-> "text", json |-> TRUE, doc |-> doc]

Utf8Body(text) == [utf8 |-> TRUE, text |-> text]

BadBytes == [utf8 |-> FALSE, text |-> EmptyText]

\* bytes.decode("utf-8")
Decode(body) == IF body.utf8 THEN Ok(body.text) ELSE Err("UnicodeDecodeError")

\* open(path, "w") creates the file or truncates it; write() fills it.
WriteFile(files, path, content) ==
    [p \in DOMAIN files \cup {path} |-> IF p = path THEN content ELSE files[p]]

Exists(files, path) == path \in DOMAIN files

\* What the path holds: its content, or None when there is no file.
ContentAt(files, path) == IF path \in DOMAIN files THEN files[path] ELSE None

NoFiles == [p \in {} |-> None]

FilesIn(files, dir) ==
    {p \in DOMAIN files : Len(p) = Len(dir) + 1 /\ SubSeq(p, 1, Len(dir)) = dir}

(***************************************************************************)
(* Landing zone (dags/layers/landing_zone.py).                             *)
(***************************************************************************)
\* A mutant of the fetch: the body is written whatever the status is.
GetDataFromApiAnyStatus(files, response, city_name, write_path) ==
    LET file == Append(write_path, city_name \o ".json")
        opened == WriteFile(files, file, EmptyText)
        text == Decode(response.body)
    IN  IF text.ok
        THEN [files |-> WriteFile(opened, file, text.val),
              result |-> IF response.status = 200 THEN "ok" ELSE "HTTPError"]
        ELSE [files |-> opened, result |-> text.err]

\* _get_data_from_api: the match on the status code.  With 200 the file is
\* opened for writing (created or truncated) before the body is decoded.
GetDataFromApi(files, response, city_name, write_path) ==
    LET file == Append(write_path, city_name \o ".json")
        opened == WriteFile(files, file, EmptyText)
        text == Decode(response.body)
    IN  IF response.status = 200
        THEN IF text.ok
             THEN [files |-> WriteFile(opened, file, text.val), result |-> "ok"]
             ELSE [files |-> opened, result |-> text.err]
        ELSE [files |-> files, result |-> "HTTPError"]

(***************************************************************************)
(* Upstream documents.  The API answers with a JSON object holding the     *)
(* point's coordinates and an "hourly" object of parallel arrays: "time"   *)
(* and one array per requested indicator.                                  *)
(***************************************************************************)
T0 == "2024-01-01T00:00"

T1 == "2024-01-01T01:00"

T2 == "2024-01-02T00:00"

CityIndex(city) == CHOOSE i \in 1..Len(cities) : cities[i] = city

\* query_weather_api's default indicators
WeatherHourly(city) ==
    LET i == CityIndex(city)
    IN  [time |-> <<T0, T1>>,
         temperature_2m |-> <<Val(5 + i), Val(15 + i)>>,
         relative_humidity_2m |-> <<Val(80), Val(60 + i)>>,
         precipitation |-> <<Val(0), Val(i)>>,
         wind_speed_10m |-> <<Val(1 + i), Val(8 + i)>>,
         wind_direction_10m |-> <<Val(90), Val(180)>>]

\* query_air_quality_api's default indicators
AirQualityHourly(city) ==
    LET i == CityIndex(city)
    IN  [time |-> <<T0, T1>>,
         pm10 |-> <<Val(20 + i), Val(30 + i)>>,
         pm2_5 |-> <<Val(10 + i), Val(20 + i)>>,
         carbon_monoxide |-> <<Val(200), Val(300 + i)>>,
         nitrogen_dioxide |-> <<Val(7), Val(9)>>,
         ozone |-> <<Val(40 + i), Val(50)>>]

ApiDocument(prefix, city) ==
    [latitude |-> city.latitude,
     longitude |-> city.longitude,
     hourly |-> IF prefix = "weather_data"
                THEN WeatherHourly(city)
                ELSE AirQualityHourly(city)]

\* An error document: JSON without the "hourly" key.
ErrorDocument == [error |-> TRUE, reason |-> "bad request"]

\* What requests.get may return for one query.
Responses(prefix, city) ==
    {[status |-> 200, body |-> Utf8Body(JsonText(ApiDocument(prefix, city)))],
     [status |-> 200, body |-> Utf8Body(JsonText(ErrorDocument))],
     [status |-> 200, body |-> BadBytes],
     [status |-> 503, body |-> Utf8Body(JsonText(ErrorDocument))]}

\* The execution_time values the stage functions are called with in Spec:
\* a string, and the datetime whose ISO form is that string.
ExecutionTimes ==
    {StrTime("2024-01-01T00:00:00"), DateTime("2024-01-01", 0, 0)}

(***************************************************************************)
(* query_weather_api / query_air_quality_api(base_output_path,             *)
(* execution_time, latitude, longitude, city_name).                        *)
(***************************************************************************)
QueryApi(prefix, city, execution_time, response) ==
    LET write_path == LandingWritePath(landing_zone_path, execution_time, prefix)
    IN  IF ~write_path.ok
        THEN /\ last' = [op |-> "fetch", prefix |-> prefix, city |-> city.name,
                         status |-> response.status,
                         result |-> write_path.err]
             /\ UNCHANGED <<fs, dirs>>
        ELSE LET got == GetDataFromApi(fs, response, city.name, write_path.val)
             IN  /\ dirs' = Mkdir(dirs, write_path.val)
                 /\ fs' = got.files
                 /\ last' = [op |-> "fetch", prefix |-> prefix,
                             city |-> city.name,
                             status |-> response.status,
                             result |-> got.result]

(***************************************************************************)
(* Bronze layer (dags/layers/bronze_layer.py).  A table (a polars frame, a *)
(* parquet file) is its set of column names and its sequence of rows, each *)
(* row a function from the column names to values.                         *)
(***************************************************************************)
Table(cols, rows) == [kind |-> "table", cols |-> cols, rows |-> rows]

Height(df) == Len(df.rows)

\* pl.from_dict(dict of lists): one column per key, one row per index; the
\* lists must have one length.
FromDict(hourly) ==
    LET keys == DOMAIN hourly
        lens == {Len(hourly[k]) : k \in keys}
        n == IF lens = {} THEN 0 ELSE CHOOSE l \in lens : TRUE
    IN  IF Cardinality(lens) > 1
        THEN Err("ShapeError")
        ELSE Ok(Table(keys, [i \in 1..n |-> [c \in keys |-> hourly[c][i]]]))

\* A mutant: the city column is never added.
WithCityNameOmitted(df, city_name) == df

\* .with_columns(pl.lit(city_name).alias("city_name")): the literal is
\* broadcast to the frame's height (a frame without columns gets one row).
WithCityName(df, city_name) ==
    LET cols == df.cols \cup {"city_name"}
        tag(row) == [c \in cols |-> IF c = "city_name" THEN city_name ELSE row[c]]
    IN  IF df.cols = {}
        THEN Table(cols, <<[c \in cols |-> city_name]>>)
        ELSE Table(cols, [i \in 1..Len(df.rows) |-> tag(df.rows[i])])

\* json.load(file), landing_zone_data["hourly"], pl.from_dict(...).with_columns(...)
BronzeTable(text, city_name) ==
    IF ~text.json
    THEN Err("JSONDecodeError")
    ELSE IF "hourly" \notin DOMAIN text.doc
    THEN Err("KeyError")
    ELSE LET df == FromDict(text.doc.hourly)
         IN  IF df.ok THEN Ok(WithCityName(df.val, city_name)) ELSE df

\* _transform_json_data_to_parquet: read the landing file, build the table,
\* create the output directory, write <city_name>.parquet.
TransformJsonDataToParquet(files, ds, city_name, execution_time, prefix) ==
    LET input_path == BronzeInputPath(landing_zone_path, execution_time,
                                      prefix, city_name)
        content_df == BronzeTable(files[input_path.val], city_name)
        write_path == BronzeOutputPath(bronze_layer_path, execution_time, prefix)
        unchanged(e) == [files |-> files, dirs |-> ds, result |-> e]
    IN  IF ~input_path.ok THEN unchanged(input_path.err)
        ELSE IF ~Exists(files, input_path.val) THEN unchanged("FileNotFoundError")
        ELSE IF ~content_df.ok THEN unchanged(content_df.err)
        ELSE [files |-> WriteFile(files,
                                  Append(write_path.val, city_name \o ".parquet"),
                                  content_df.val),
              dirs |-> Mkdir(ds, write_path.val),
              result |-> "ok"]

Transform ==
    /\ \E prefix \in Prefixes, city \in Cities, execution_time \in ExecutionTimes :
         LET done == TransformJsonDataToParquet(fs, dirs, city.name,
                                                execution_time, prefix)
         IN  /\ fs' = done.files
             /\ dirs' = done.dirs
             /\ last' = [op |-> "transform", prefix |-> prefix,
                         city |-> city.name, result |-> done.result]
    /\ UNCHANGED <<nuuid, nmerged, input, output, task>>

(***************************************************************************)
(* Silver layer (layers/silver_layer.py).                                  *)
(***************************************************************************)
RECURSIVE SeqOfSet(_)
\* The elements of a finite set in some fixed order (a directory listing).
SeqOfSet(S) ==
    IF S = {} THEN <<>>
    ELSE LET x == CHOOSE y \in S : TRUE IN <<x>> \o SeqOfSet(S \ {x})

RECURSIVE ConcatRows(_, _)
ConcatRows(files, paths) ==
    IF paths = <<>> THEN <<>>
    ELSE files[Head(paths)].rows \o ConcatRows(files, Tail(paths))

\* pl.scan_parquet(directory) / pl.read_parquet(directory): the rows of
\* every file of the directory, one after the other; the files must exist
\* and agree on their columns.
ScanParquet(files, dir) ==
    LET paths == FilesIn(files, dir)
        schemas == {files[p].cols : p \in paths}
    IN  IF paths = {} THEN Err("FileNotFoundError")
        ELSE IF Cardinality(schemas) > 1 THEN Err("SchemaError")
        ELSE Ok(Table(CHOOSE c \in schemas : TRUE,
                      ConcatRows(files, SeqOfSet(paths))))

JoinKeys == {"time", "city_name"}

\* The name a right-hand column gets in the join's output.
RightName(left, c) == IF c \in left.cols THEN c \o "_right" ELSE c

JoinedRow(left, right, l, r) ==
    LET rcols == right.cols \ JoinKeys
        source(c) == CHOOSE rc \in rcols : RightName(left, rc) = c
    IN  [c \in left.cols \cup {RightName(left, rc) : rc \in rcols} |->
            IF c \in left.cols THEN l[c] ELSE r[source(c)]]

RECURSIVE JoinFrom(_, _, _)
\* The output rows of left rows i.. : each left row with every right row
\* that has its key.
JoinFrom(left, right, i) ==
    IF i > Len(left.rows) THEN <<>>
    ELSE LET l == left.rows[i]
             Match(r) == \A k \in JoinKeys : r[k] = l[k]
             hits == SelectSeq(right.rows, Match)
         IN  [j \in 1..Len(hits) |-> JoinedRow(left, right, l, hits[j])]
                \o JoinFrom(left, right, i + 1)

\* A mutant of the join: a left join keeps the left rows without a match
\* (their right-hand columns are left out of this sketch of it).
LeftJoinInsteadOfInner(left, right) ==
    IF ~(JoinKeys \subseteq left.cols /\ JoinKeys \subseteq right.cols)
    THEN Err("ColumnNotFoundError")
    ELSE Ok(Table(left.cols, left.rows))

\* left_df.join(right_df, how="inner", on=["time", "city_name"])
InnerJoin(left, right) ==
    LET rnames == {RightName(left, rc) : rc \in right.cols \ JoinKeys}
    IN  IF ~(JoinKeys \subseteq left.cols /\ JoinKeys \subseteq right.cols)
        THEN Err("ColumnNotFoundError")
        ELSE IF Cardinality(rnames) < Cardinality(right.cols \ JoinKeys)
                \/ \E rc \in right.cols \ JoinKeys :
                      rc \in left.cols /\ (rc \o "_right") \in left.cols
        THEN Err("DuplicateError")
        ELSE Ok(Table(left.cols \cup rnames, JoinFrom(left, right, 1)))

RECURSIVE FoldJoin(_, _)
FoldJoin(acc, rest) ==
    IF rest = <<>> \/ ~acc.ok THEN acc
    ELSE FoldJoin(InnerJoin(acc.val, Head(rest)), Tail(rest))

\* A mutant of the fold: an empty list of frames yields an empty frame.
ReduceWithInitial(dfs_list) ==
    IF dfs_list = <<>> THEN Ok(Table(JoinKeys, <<>>))
    ELSE FoldJoin(Ok(Head(dfs_list)), Tail(dfs_list))

\* functools.reduce(join, dfs_list) without an initial value: TypeError on
\* an empty list, the single frame for a list of one.
Reduce(dfs_list) ==
    IF dfs_list = <<>> THEN Err("TypeError")
    ELSE FoldJoin(Ok(Head(dfs_list)), Tail(dfs_list))

\* The timestamps the upstream API writes, and what they parse to.
ParseTime(s) ==
    CASE s = T0 -> Ok([date |-> "2024-01-01", hour |-> 0])
      [] s = T1 -> Ok([date |-> "2024-01-01", hour |-> 1])
      [] s = T2 -> Ok([date |-> "2024-01-02", hour |-> 0])
      [] OTHER -> Err("InvalidOperationError")

\* .cast({"time": pl.Datetime}): every time string becomes a datetime; a
\* string that is no timestamp fails the (strict) cast.
CastTime(df) ==
    IF "time" \notin df.cols THEN Err("ColumnNotFoundError")
    ELSE IF \E i \in 1..Len(df.rows) : ~ParseTime(df.rows[i].time).ok
    THEN Err("InvalidOperationError")
    ELSE Ok(Table(df.cols,
                  [i \in 1..Len(df.rows) |->
                     [df.rows[i] EXCEPT !.time = ParseTime(df.rows[i].time).val]]))

\* The frames of the prefixes, in the order of the list.
ScanAll(files, execution_time, prefixes) ==
    [i \in 1..Len(prefixes) |->
        ScanParquet(files,
                    SilverInputPath(bronze_layer_path, execution_time,
                                    prefixes[i]).val)]

\* A mutant of the output name: one fixed name per run.
FixedName(n) == "merged"

\* str(uuid4()): a name no earlier call returned.  n counts the calls.
Uuid4(n) == "uuid-" \o ToString(n + 1)

\* The whole of merge_and_clean_dataframes, in the order of the source:
\* the loop over the prefixes (isoformat, scan_parquet), reduce (TypeError on
\* an empty list, at once), the output directory (isoformat, mkdir), the
\* file name (uuid4), sink_parquet.  The frames are lazy: an inconsistent
\* bronze directory, a missing join column and a failing cast surface when
\* sink_parquet runs the plan.  Whether a missing bronze directory is
\* noticed by scan_parquet (eager) or only by sink_parquet depends on the
\* library version: both are allowed.
MergeAndCleanDataframes(files, ds, n, prefixes, execution_time, eager) ==
    LET unchanged(e) == [files |-> files, dirs |-> ds, n |-> n, result |-> e]
        iso == Isoformat(execution_time)
        scans == ScanAll(files, execution_time, prefixes)
        out_dir == SilverOutputPath(silver_layer_path, execution_time)
        failed(e) == [files |-> files, dirs |-> Mkdir(ds, out_dir.val),
                      n |-> n + 1, result |-> e]
        missing == {i \in 1..Len(prefixes) : ~scans[i].ok}
        first_missing == scans[CHOOSE i \in missing : \A j \in missing : i <= j]
        declared == [i \in 1..Len(prefixes) |->
                        IF scans[i].ok THEN scans[i].val ELSE Table({}, <<>>)]
        joint_df == Reduce(declared)
        adjusted_types_df == CastTime(joint_df.val)
    IN  IF prefixes # <<>> /\ ~iso.ok THEN unchanged(iso.err)
        ELSE IF missing # {} /\ eager /\ first_missing.err = "FileNotFoundError"
        THEN unchanged(first_missing.err)
        ELSE IF prefixes = <<>> /\ ~joint_df.ok THEN unchanged(joint_df.err)
        ELSE IF ~out_dir.ok THEN unchanged(out_dir.err)
        ELSE IF missing # {} THEN failed(first_missing.err)
        ELSE IF ~joint_df.ok THEN failed(joint_df.err)
        ELSE IF ~adjusted_types_df.ok THEN failed(adjusted_types_df.err)
        ELSE [files |-> WriteFile(files,
                                  Append(out_dir.val, Uuid4(n) \o ".parquet"),
                                  adjusted_types_df.val),
              dirs |-> Mkdir(ds, out_dir.val),
              n |-> n + 1,
              result |-> "ok"]

PrefixLists ==
    {<<>>, <<"weather_data">>, <<"weather_data", "air_quality_data">>}

Merge ==
    /\ nuuid < MaxMerges
    /\ \E prefixes \in PrefixLists, execution_time \in ExecutionTimes,
          eager \in BOOLEAN :
         LET done == MergeAndCleanDataframes(fs, dirs, nuuid, prefixes,
                                             execution_time, eager)
         IN  /\ fs' = done.files
             /\ dirs' = done.dirs
             /\ nuuid' = done.n
             /\ nmerged' = IF done.result = "ok" THEN nmerged + 1 ELSE nmerged
             /\ last' = [op |-> "merge", prefixes |-> prefixes,
                         result |-> done.result]
    /\ UNCHANGED <<input, output, task>>

(***************************************************************************)
(* Golden layer (dags/layers/golden_layer.py).  A mean is a fraction       *)
(* num/den, or null when no value of the group is non-null.                *)
(***************************************************************************)
RECURSIVE SumOf(_, _)
SumOf(rows, col) ==
    IF rows = <<>> THEN 0
    ELSE (IF Head(rows)[col].null THEN 0 ELSE Head(rows)[col].v)
            + SumOf(Tail(rows), col)

RECURSIVE CountOf(_, _)
CountOf(rows, col) ==
    IF rows = <<>> THEN 0
    ELSE (IF Head(rows)[col].null THEN 0 ELSE 1) + CountOf(Tail(rows), col)

\* pl.col(col).mean(): the mean of the non-null values, null without any.
Mean(rows, col) ==
    IF CountOf(rows, col) = 0
    THEN [null |-> TRUE, num |-> 0, den |-> 1]
    ELSE [null |-> FALSE, num |-> SumOf(rows, col), den |-> CountOf(rows, col)]

MeanLess(a, b) == ~a.null /\ ~b.null /\ a.num * b.den < b.num * a.den

\* The order of .sort(column): nulls first, then ascending.
MeanBefore(a, b) == (a.null /\ ~b.null) \/ MeanLess(a, b)

BoolRank(b) == CASE b = "null" -> 0 [] b = "false" -> 1 [] b = "true" -> 2

\* The order .sort(column) puts two values of the column in: nulls first,
\* then ascending.  kind names the column's type.
Before(kind, a, b) ==
    CASE kind = "mean" -> MeanBefore(a, b)
      [] kind = "int" -> a < b
      [] kind = "bool" -> BoolRank(a) < BoolRank(b)

\* The rows of set S as a sequence sorted by column by (rows with equal
\* values in whatever order the aggregation returned them).
SortRows(S, by, kind) ==
    CHOOSE q \in [1..Cardinality(S) -> S] :
        /\ \A i, j \in 1..Cardinality(S) : i # j => q[i] # q[j]
        /\ \A i, j \in 1..Cardinality(S) :
              i < j => ~Before(kind, q[j][by], q[i][by])

\* The rows whose key (keys[i] is the key of rows[i]) is k.
GroupRows(rows, keys, k) ==
    LET idx == SelectSeq([i \in 1..Len(rows) |-> i], LAMBDA i : keys[i] = k)
    IN  [j \in 1..Len(idx) |-> rows[idx[j]]]

KeySet(keys) == {keys[i] : i \in 1..Len(keys)}

\* (pl.col("precipitation") > 0).alias("has_precipitation")
HasPrecipitation(row) ==
    IF row.precipitation.null THEN "null"
    ELSE IF row.precipitation.v > 0 THEN "true" ELSE "false"

\* analyze_precipitation_effect
AnalyzePrecipitationEffect(df) ==
    LET needed == {"precipitation", "pm2_5", "pm10", "ozone", "carbon_monoxide"}
        flags == [i \in 1..Len(df.rows) |-> HasPrecipitation(df.rows[i])]
        agg(k) == LET g == GroupRows(df.rows, flags, k)
                  IN  [has_precipitation |-> k,
                       avg_pm2_5 |-> Mean(g, "pm2_5"),
                       avg_pm10 |-> Mean(g, "pm10"),
                       avg_ozone |-> Mean(g, "ozone"),
                       avg_carbon_monoxide |-> Mean(g, "carbon_monoxide"),
                       count |-> Len(g)]
        keys == KeySet(flags)
        precip_analysis ==
            SortRows({agg(k) : k \in keys}, "has_precipitation", "bool")
        no_rain_pm25 == agg("false").avg_pm2_5
        with_rain_pm25 == agg("true").avg_pm2_5
    IN  IF ~(needed \subseteq df.cols) THEN Err("ColumnNotFoundError")
        ELSE IF {"false", "true"} \subseteq keys
                /\ (no_rain_pm25.null \/ with_rain_pm25.null)
        THEN Err("TypeError")
        ELSE IF {"false", "true"} \subseteq keys /\ no_rain_pm25.num = 0
        THEN Err("ZeroDivisionError")
        ELSE Ok(Table({"has_precipitation", "avg_pm2_5", "avg_pm10", "avg_ozone",
                       "avg_carbon_monoxide", "count"}, precip_analysis))

Light == "Light (0-3 km/h)"

Gentle == "Gentle (3-7 km/h)"

Moderate == "Moderate (7-12 km/h)"

Strong == "Strong (>12 km/h)"

\* pl.when(<= 3).then(Light).when(<= 7).then(Gentle).when(<= 12)
\* .then(Moderate).otherwise(Strong): a null comparison is no match, so a
\* null wind speed falls through to the otherwise branch.
WindCategory(row) ==
    LET w == row.wind_speed_10m
    IN  IF ~w.null /\ w.v <= 3 THEN Light
        ELSE IF ~w.null /\ w.v <= 7 THEN Gentle
        ELSE IF ~w.null /\ w.v <= 12 THEN Moderate
        ELSE Strong

\* analyze_wind_effect: the table.  The two correlations are only logged:
\* pl.corr yields a float (NaN where it is undefined), which the log line
\* formats.
AnalyzeWindEffect(df) ==
    LET needed == {"wind_speed_10m", "pm2_5", "pm10", "ozone"}
        cats == [i \in 1..Len(df.rows) |-> WindCategory(df.rows[i])]
        agg(k) == LET g == GroupRows(df.rows, cats, k)
                  IN  [wind_category |-> k,
                       avg_pm2_5 |-> Mean(g, "pm2_5"),
                       avg_pm10 |-> Mean(g, "pm10"),
                       avg_ozone |-> Mean(g, "ozone"),
                       avg_wind_speed |-> Mean(g, "wind_speed_10m"),
                       count |-> Len(g)]
        wind_analysis ==
            SortRows({agg(k) : k \in KeySet(cats)}, "avg_wind_speed", "mean")
    IN  IF ~(needed \subseteq df.cols) THEN Err("ColumnNotFoundError")
        ELSE Ok(Table({"wind_category", "avg_pm2_5", "avg_pm10", "avg_ozone",
                       "avg_wind_speed", "count"}, wind_analysis))

\* pl.col("time").dt.hour()
HourOf(row) == row.time.hour

\* The rows of the hourly table whose avg_pm2_5 is the maximum (minimum) of
\* the column: hourly_stats.filter(pl.col("avg_pm2_5") == max).  The
\* extreme ignores nulls; with every mean null it is null and nothing
\* matches.
PeakRows(stats, which) ==
    SelectSeq(stats,
              LAMBDA r : /\ ~r.avg_pm2_5.null
                         /\ \A i \in 1..Len(stats) :
                               IF which = "max"
                               THEN ~MeanLess(r.avg_pm2_5, stats[i].avg_pm2_5)
                               ELSE ~MeanLess(stats[i].avg_pm2_5, r.avg_pm2_5))

\* Series.item(): the single element of a series of length one.
Item(rows) == IF Len(rows) = 1 THEN Ok(rows[1].hour) ELSE Err("ValueError")

\* hourly_stats of analyze_hourly_patterns: the group_by("hour") aggregate,
\* sorted by hour.
HourlyStats(df) ==
    LET hours == [i \in 1..Len(df.rows) |-> HourOf(df.rows[i])]
        agg(k) == LET g == GroupRows(df.rows, hours, k)
                  IN  [hour |-> k,
                       avg_pm2_5 |-> Mean(g, "pm2_5"),
                       avg_temperature_2m |-> Mean(g, "temperature_2m"),
                       avg_wind_speed_10m |-> Mean(g, "wind_speed_10m"),
                       avg_relative_humidity_2m |-> Mean(g, "relative_humidity_2m"),
                       count |-> Len(g)]
    IN  SortRows({agg(k) : k \in KeySet(hours)}, "hour", "int")

\* analyze_hourly_patterns: the table, then the peak and the lowest hour,
\* each read with .item() from the rows that hold the extreme.
AnalyzeHourlyPatterns(df) ==
    LET needed == {"time", "pm2_5", "temperature_2m", "wind_speed_10m",
                   "relative_humidity_2m"}
        hourly_stats == HourlyStats(df)
        max_pm25_hour == Item(PeakRows(hourly_stats, "max"))
        min_pm25_hour == Item(PeakRows(hourly_stats, "min"))
    IN  IF ~(needed \subseteq df.cols) THEN Err("ColumnNotFoundError")
        ELSE IF ~max_pm25_hour.ok THEN max_pm25_hour
        ELSE IF ~min_pm25_hour.ok THEN min_pm25_hour
        ELSE Ok(Table({"hour", "avg_pm2_5", "avg_temperature_2m",
                       "avg_wind_speed_10m", "avg_relative_humidity_2m",
                       "count"}, hourly_stats))

\* The temperature bands: < 0, < 10, < 20, < 30, otherwise (null included).
TempCategory(row) ==
    LET t == row.temperature_2m
    IN  IF ~t.null /\ t.v < 0 THEN "Below 0C"
        ELSE IF ~t.null /\ t.v < 10 THEN "0-10C"
        ELSE IF ~t.null /\ t.v < 20 THEN "10-20C"
        ELSE IF ~t.null /\ t.v < 30 THEN "20-30C"
        ELSE "Above 30C"

\* analyze_temperature_humidity_relationship
AnalyzeTemperatureHumidityRelationship(df) ==
    LET needed == {"temperature_2m", "relative_humidity_2m", "pm2_5", "ozone"}
        cats == [i \in 1..Len(df.rows) |-> TempCategory(df.rows[i])]
        agg(k) == LET g == GroupRows(df.rows, cats, k)
                  IN  [temp_category |-> k,
                       avg_pm2_5 |-> Mean(g, "pm2_5"),
                       avg_ozone |-> Mean(g, "ozone"),
                       avg_temperature |-> Mean(g, "temperature_2m"),
                       count |-> Len(g)]
        temp_analysis ==
            SortRows({agg(k) : k \in KeySet(cats)}, "avg_temperature", "mean")
    IN  IF ~(needed \subseteq df.cols) THEN Err("ColumnNotFoundError")
        ELSE Ok(Table({"temp_category", "avg_pm2_5", "avg_ozone",
                       "avg_temperature", "count"}, temp_analysis))

GoldenTables ==
    <<"precipitation.csv", "wind.csv", "hourly_patterns.csv", "humidity_df.csv">>

\* calculate_analytics: read the run's silver directory, compute the four
\* tables, then make the output directory and write the four files.
CalculateAnalytics(files, ds, execution_time) ==
    LET unchanged(e) == [files |-> files, dirs |-> ds, result |-> e]
        in_dir == GoldenInputPath(silver_layer_path, execution_time)
        data_df == ScanParquet(files, in_dir.val)
        precipitation_df == AnalyzePrecipitationEffect(data_df.val)
        wind_df == AnalyzeWindEffect(data_df.val)
        hourly_patterns == AnalyzeHourlyPatterns(data_df.val)
        humidity_df == AnalyzeTemperatureHumidityRelationship(data_df.val)
        output_path == GoldenOutputPath(golden_layer_path, execution_time)
        written == <<precipitation_df.val, wind_df.val, hourly_patterns.val,
                     humidity_df.val>>
    IN  IF ~in_dir.ok THEN unchanged(in_dir.err)
        ELSE IF ~data_df.ok THEN unchanged(data_df.err)
        ELSE IF ~precipitation_df.ok THEN unchanged(precipitation_df.err)
        ELSE IF ~wind_df.ok THEN unchanged(wind_df.err)
        ELSE IF ~hourly_patterns.ok THEN unchanged(hourly_patterns.err)
        ELSE IF ~humidity_df.ok THEN unchanged(humidity_df.err)
        ELSE [files |->
                [p \in DOMAIN files
                        \cup {Append(output_path.val, GoldenTables[i]) : i \in 1..4} |->
                    IF \E i \in 1..4 : p = Append(output_path.val, GoldenTables[i])
                    THEN written[CHOOSE i \in 1..4 :
                                    p = Append(output_path.val, GoldenTables[i])]
                    ELSE files[p]],
              dirs |-> Mkdir(ds, output_path.val),
              result |-> "ok"]

Analyze ==
    /\ \E execution_time \in ExecutionTimes :
         LET done == CalculateAnalytics(fs, dirs, execution_time)
         IN  /\ fs' = done.files
             /\ dirs' = done.dirs
             /\ last' = [op |-> "analyze", result |-> done.result]
    /\ UNCHANGED <<nuuid, nmerged, input, output, task>>

Fetch ==
    /\ \E prefix \in Prefixes, city \in Cities, execution_time \in ExecutionTimes :
         \E response \in Responses(prefix, city) :
            QueryApi(prefix, city, execution_time, response)
    /\ UNCHANGED <<nuuid, nmerged, input, output, task>>

Init ==
    /\ fs = NoFiles
    /\ dirs = {}
    /\ nuuid = 0
    /\ nmerged = 0
    /\ last = [op |-> "init"]
    /\ input = None
    /\ output = None
    /\ task = None

Next ==
    \/ Fetch
    \/ Transform
    \/ Merge
    \/ Analyze

Spec == Init /\ [][Next]_vars

\* The landing file of a fetch: <landing_root>/<run>/<indicator_set>/<city>.json
LandingFile(run, prefix, city_name) ==
    <<"landing_zone", run, prefix, city_name \o ".json">>

\* The run directory of the stage invocations of Spec.
Run == "2024-01-01T00:00:00"

SilverRunDir == <<"silver_layer", Run>>

GoldenRunDir == <<"golden_layer", Run>>

(***************************************************************************)
(* C1.  A fetch whose HTTP status is not 200 fails with an error and       *)
(* writes nothing: every path, the landing file                            *)
(* <landing_root>/<run>/<indicator_set>/<city>.json among them, holds      *)
(* after the invocation what it held before it.                            *)
(***************************************************************************)
C1_BadStatusWritesNothing ==
    [][(last'.op = "fetch" /\ last'.status # 200)
          => (last'.result # "ok" /\ fs' = fs)]_vars

\* A 503 fetch has just failed over a landing file an earlier fetch wrote.
C1_Witness ==
    /\ last.op = "fetch"
    /\ last.status = 503
    /\ last.result = "HTTPError"
    /\ Exists(fs, LandingFile(Run, last.prefix, last.city))
    /\ fs[LandingFile(Run, last.prefix, last.city)].json

(***************************************************************************)
(* C4.  Every successful merge adds exactly one new file to                *)
(* <silver_root>/<run>, under a name no file there had, and leaves the     *)
(* files already there present and unchanged; after n successful merges    *)
(* of the run the directory holds n files.                                 *)
(***************************************************************************)
C4_MergeAddsOneFile ==
    /\ [][(last'.op = "merge" /\ last'.result = "ok")
             => LET old == FilesIn(fs, SilverRunDir)
                    new == FilesIn(fs', SilverRunDir)
                IN  /\ old \subseteq new
                    /\ Cardinality(new \ old) = 1
                    /\ \A p \in old : fs'[p] = fs[p]]_vars
    /\ [](Cardinality(FilesIn(fs, SilverRunDir)) = nmerged)

\* Two merges of the run have succeeded.
C4_Witness ==
    /\ last.op = "merge"
    /\ last.result = "ok"
    /\ nmerged = 2
    /\ Cardinality(FilesIn(fs, SilverRunDir)) = 2

(***************************************************************************)
(* C5.  Every stage invocation either completes with its whole output      *)
(* written (the golden analyzer: all four tables) or fails with nothing of *)
(* its output created or changed.                                          *)
(***************************************************************************)
C5_AllOrNothing ==
    [][/\ last'.result # "ok" => fs' = fs
       /\ (last'.op = "analyze" /\ last'.result = "ok")
             => \A i \in 1..4 : Exists(fs', Append(GoldenRunDir, GoldenTables[i]))]_vars

(***************************************************************************)
(* C8.  A merge called with an empty prefix list fails with an error and   *)
(* leaves no merged file: the filesystem is as it was.                     *)
(***************************************************************************)
C8_EmptyPrefixListFails ==
    [][(last'.op = "merge" /\ last'.prefixes = <<>>)
          => (last'.result # "ok" /\ fs' = fs /\ dirs' = dirs)]_vars

\* A merge with no prefixes has just failed in reduce().
C8_Witness ==
    /\ last.op = "merge"
    /\ last.prefixes = <<>>
    /\ last.result = "TypeError"

(***************************************************************************)
(* SpecRun: the run directory every stage derives from one execution_time  *)
(* value.  The DAG imports its stages from dags/layers and hands each the  *)
(* date string rendered for "{{ ds }}"; the runner imports them from       *)
(* layers and hands each the datetime read from datetime.now().  The path  *)
(* functions of dags/layers/silver_layer.py and of layers/landing_zone.py, *)
(* layers/bronze_layer.py and layers/golden_layer.py follow the storage    *)
(* layout the specification gives: <root>/<run>/<indicator_set>/<city>     *)
(* for landing and bronze, <root>/<run> for silver and golden, <run> being *)
(* the date string, respectively the timestamp in ISO format.              *)
(***************************************************************************)
\* dags/layers/silver_layer._get_input_path: <bronze_root>/<run>/<indicator_set>
DagSilverInputPath(base, execution_time, prefix) ==
    LET run == PathDiv(base, execution_time)
    IN  IF run.ok THEN Ok(Append(run.val, prefix)) ELSE run

\* dags/layers/silver_layer._get_output_path: <silver_root>/<run>
DagSilverOutputPath(base, execution_time) == PathDiv(base, execution_time)

\* The <run> directory of the runner's stages under root base.
RunnerRunDir(base, execution_time) ==
    LET iso == Isoformat(execution_time)
    IN  IF iso.ok THEN Ok(Append(base, iso.val)) ELSE iso

\* layers/landing_zone._get_path_to_write: <landing_root>/<run>/<indicator_set>
RunnerLandingWritePath(base, execution_time, prefix) ==
    LET run == RunnerRunDir(base, execution_time)
    IN  IF run.ok THEN Ok(Append(run.val, prefix)) ELSE run

\* layers/bronze_layer._get_input_path:
\* <landing_root>/<run>/<indicator_set>/<city>.json
RunnerBronzeInputPath(base, execution_time, prefix, city_name) ==
    LET run == RunnerRunDir(base, execution_time)
    IN  IF run.ok
        THEN Ok(Append(Append(run.val, prefix), city_name \o ".json"))
        ELSE run

\* layers/bronze_layer._get_output_path: <bronze_root>/<run>/<indicator_set>
RunnerBronzeOutputPath(base, execution_time, prefix) ==
    LET run == RunnerRunDir(base, execution_time)
    IN  IF run.ok THEN Ok(Append(run.val, prefix)) ELSE run

\* layers/golden_layer.calculate_analytics reads <silver_root>/<run>
RunnerGoldenInputPath(base, execution_time) == RunnerRunDir(base, execution_time)

\* layers/golden_layer._get_output_path: <golden_root>/<run>
RunnerGoldenOutputPath(base, execution_time) == RunnerRunDir(base, execution_time)

\* The execution_time of a run: "{{ ds }}" of the DAG's op_kwargs, or
\* current_dt of the runner.
RunInputs ==
    {[kind |-> "dag", execution_time |-> StrTime(d)] : d \in Dates}
        \cup {[kind |-> "runner", execution_time |-> DateTime(d, h, us)] :
                 d \in Dates, h \in 0..MaxHour, us \in Micros}

InitRun ==
    /\ fs = NoFiles
    /\ dirs = {}
    /\ nuuid = 0
    /\ nmerged = 0
    /\ last = [op |-> "init"]
    /\ input \in RunInputs
    /\ output = None
    /\ task = None

\* The directories the four stages of a DAG run address for one prefix and
\* one city, each handed the same rendered "{{ ds }}".
DagRunDirs ==
    /\ input.kind = "dag"
    /\ output = None
    /\ output' =
         [kind |-> "rundirs",
          landing_out |-> LandingWritePath(landing_zone_path, input.execution_time, "weather_data"),
          bronze_in |-> BronzeInputPath(landing_zone_path, input.execution_time, "weather_data", "Kyiv"),
          bronze_out |-> BronzeOutputPath(bronze_layer_path, input.execution_time, "weather_data"),
          silver_in |-> DagSilverInputPath(bronze_layer_path, input.execution_time, "weather_data"),
          silver_out |-> DagSilverOutputPath(silver_layer_path, input.execution_time),
          golden_in |-> GoldenInputPath(silver_layer_path, input.execution_time),
          golden_out |-> GoldenOutputPath(golden_layer_path, input.execution_time)]
    /\ UNCHANGED <<fs, dirs, nuuid, nmerged, last, input, task>>

\* The same for the runner's stages, each handed current_dt.
RunnerRunDirs ==
    /\ input.kind = "runner"
    /\ output = None
    /\ output' =
         [kind |-> "rundirs",
          landing_out |-> RunnerLandingWritePath(landing_zone_path, input.execution_time, "weather_data"),
          bronze_in |-> RunnerBronzeInputPath(landing_zone_path, input.execution_time, "weather_data", "Kyiv"),
          bronze_out |-> RunnerBronzeOutputPath(bronze_layer_path, input.execution_time, "weather_data"),
          silver_in |-> SilverInputPath(bronze_layer_path, input.execution_time, "weather_data"),
          silver_out |-> SilverOutputPath(silver_layer_path, input.execution_time),
          golden_in |-> RunnerGoldenInputPath(silver_layer_path, input.execution_time),
          golden_out |-> RunnerGoldenOutputPath(golden_layer_path, input.execution_time)]
    /\ UNCHANGED <<fs, dirs, nuuid, nmerged, last, input, task>>

NextRun ==
    \/ DagRunDirs
    \/ RunnerRunDirs

SpecRun == InitRun /\ [][NextRun]_vars

SeqsUpTo(S, n) == UNION {[1..k -> S] : k \in 0..n}

Times == {T0, T1}

HourlyObjects ==
    {[time |-> t] : t \in SeqsUpTo(Times, MaxLen)}
        \cup {[time |-> t, pm2_5 |-> x] :
                 t \in SeqsUpTo(Times, MaxLen),
                 x \in SeqsUpTo({Val(10), Null}, MaxLen)}

LandingTexts ==
    {EmptyText, JsonText(ErrorDocument)}
        \cup {JsonText([latitude |-> 50450, longitude |-> 30524, hourly |-> h]) :
                 h \in HourlyObjects}

BronzeFile(run, prefix, city_name) ==
    <<"bronze_layer", run, prefix, city_name \o ".parquet">>

InitBronze ==
    /\ \E prefix \in Prefixes, city \in Cities, text \in LandingTexts :
          fs = WriteFile(NoFiles, LandingFile(Run, prefix, city.name), text)
    /\ dirs = {}
    /\ nuuid = 0
    /\ nmerged = 0
    /\ last = [op |-> "init"]
    /\ input = None
    /\ output = None
    /\ task = None

NextBronze == Transform

SpecBronze == InitBronze /\ [][NextBronze]_vars

EqualLengths(hourly) == Cardinality({Len(hourly[k]) : k \in DOMAIN hourly}) = 1

(***************************************************************************)
(* C7.  For a landing document whose hourly object holds equal-length      *)
(* arrays, the bronze table has as many rows as the time array, a column   *)
(* for every key of the hourly object, and exactly one more column,        *)
(* city_name, holding the transform's city name in every row.              *)
(***************************************************************************)
C7_BronzeShape ==
    \A prefix \in Prefixes, city \in Cities :
        LET landing == LandingFile(Run, prefix, city.name)
            bronze == BronzeFile(Run, prefix, city.name)
            hourly == fs[landing].doc.hourly
            df == fs[bronze]
            valid == /\ Exists(fs, landing)
                     /\ fs[landing].json
                     /\ "hourly" \in DOMAIN fs[landing].doc
                     /\ EqualLengths(hourly)
        IN  /\ (/\ valid /\ last.op = "transform" /\ last.prefix = prefix
                /\ last.city = city.name /\ last.result # "TypeError")
                  => (last.result = "ok" /\ Exists(fs, bronze))
            /\ (valid /\ Exists(fs, bronze))
                  => /\ Height(df) = Len(hourly.time)
                     /\ DOMAIN hourly \subseteq df.cols
                     /\ df.cols \ DOMAIN hourly = {"city_name"}
                     /\ \A i \in 1..Height(df) : df.rows[i].city_name = city.name

\* A document of two hours with a null value has been transformed.
C7_Witness ==
    /\ last.op = "transform"
    /\ last.result = "ok"
    /\ LET df == fs[BronzeFile(Run, last.prefix, last.city)]
       IN  /\ Height(df) = 2
           /\ df.cols = {"time", "pm2_5", "city_name"}
           /\ df.rows[1].pm2_5 = Null
           /\ df.rows[2].city_name = last.city

(***************************************************************************)
(* SpecJoin: the silver merge over bronze directories of every content:    *)
(* per prefix and city no file, or the bronze table of a document whose    *)
(* time array is any sequence of timestamps (repeated ones included).      *)
(***************************************************************************)
JoinCities == {cities[i] : i \in 1..NumJoinCities}

JoinDocument(prefix, times) ==
    [latitude |-> 50450, longitude |-> 30524,
     hourly |-> IF prefix = "weather_data"
                THEN [time |-> times,
                      wind_speed_10m |-> [i \in 1..Len(times) |-> Val(i)]]
                ELSE [time |-> times,
                      pm2_5 |-> [i \in 1..Len(times) |-> Val(10 * i)]]]

\* The bronze files of one prefix: for every city none, or a table.
BronzeDirs(prefix) ==
    LET file(c) == BronzeFile(Run, prefix, c.name)
        table(c, times) ==
            BronzeTable(JsonText(JoinDocument(prefix, times)), c.name).val
        dir(present, times) ==
            [p \in {file(c) : c \in present} |->
                LET c == CHOOSE d \in present : file(d) = p
                IN  table(c, times[c])]
    IN  UNION {{dir(present, times) : times \in [present -> SeqsUpTo(Times, MaxLen)]} :
                  present \in SUBSET JoinCities}

Merged(f, g) == [p \in DOMAIN f \cup DOMAIN g |-> IF p \in DOMAIN f THEN f[p] ELSE g[p]]

InitJoin ==
    /\ \E w \in BronzeDirs("weather_data"), a \in BronzeDirs("air_quality_data") :
          fs = Merged(w, a)
    /\ dirs = {}
    /\ nuuid = 0
    /\ nmerged = 0
    /\ last = [op |-> "init"]
    /\ input = None
    /\ output = None
    /\ task = None

NextJoin == Merge

SpecJoin == InitJoin /\ [][NextJoin]_vars

\* The file the last successful merge wrote.
LastMerged == fs[Append(SilverRunDir, Uuid4(nuuid - 1) \o ".parquet")]

\* The bronze batch of a prefix: all city files under the run's directory.
BronzeBatch(prefix) == ScanParquet(fs, <<"bronze_layer", Run, prefix>>).val

\* No two rows of the frame share their (time, city_name) key.
UniqueKeys(df) ==
    \A i, j \in 1..Height(df) :
        (i # j) => \E k \in JoinKeys : df.rows[i][k] # df.rows[j][k]

MergeSucceeded == last.op = "merge" /\ last.result = "ok"

(***************************************************************************)
(* C6 (as claimed).  The merged silver output has at most as many rows as  *)
(* the smallest of the joined bronze batches, for every combination of     *)
(* batches the merger accepts.                                             *)
(***************************************************************************)
C6_RowsAtMostMinimum ==
    MergeSucceeded
        => \A i \in 1..Len(last.prefixes) :
              Height(LastMerged) <= Height(BronzeBatch(last.prefixes[i]))

(***************************************************************************)
(* C6 (amended).  When no joined bronze batch holds two rows with the same *)
(* (time, city_name) key, the merged silver output has at most as many     *)
(* rows as the smallest of the joined batches.                             *)
(***************************************************************************)
C6_RowsAtMostMinimumUniqueKeys ==
    (/\ MergeSucceeded
     /\ \A i \in 1..Len(last.prefixes) : UniqueKeys(BronzeBatch(last.prefixes[i])))
        => \A i \in 1..Len(last.prefixes) :
              Height(LastMerged) <= Height(BronzeBatch(last.prefixes[i]))

\* Two batches with unique keys, of two rows and one row, were joined into
\* one row.
C6_Witness ==
    /\ MergeSucceeded
    /\ Len(last.prefixes) = 2
    /\ UniqueKeys(BronzeBatch("weather_data"))
    /\ UniqueKeys(BronzeBatch("air_quality_data"))
    /\ Height(BronzeBatch("weather_data")) = 2
    /\ Height(BronzeBatch("air_quality_data")) = 1
    /\ Height(LastMerged) = 1

(***************************************************************************)
(* SpecGolden: the wind-effect and the hourly-pattern analyses over silver *)
(* batches: every sequence of rows whose wind speed lies in each band, on  *)
(* a band's edge, or is null, and every sequence of rows of two hours      *)
(* whose pm2_5 is one of two values or null.                               *)
(***************************************************************************)
SilverColumns ==
    {"time", "city_name", "temperature_2m", "relative_humidity_2m",
     "precipitation", "wind_speed_10m", "pm10", "pm2_5", "carbon_monoxide",
     "ozone"}

SilverRow(hour, wind, pm2_5) ==
    [time |-> [date |-> "2024-01-01", hour |-> hour],
     city_name |-> "Kyiv",
     temperature_2m |-> Val(5),
     relative_humidity_2m |-> Val(80),
     precipitation |-> Val(0),
     wind_speed_10m |-> wind,
     pm10 |-> Val(20),
     pm2_5 |-> pm2_5,
     carbon_monoxide |-> Val(200),
     ozone |-> Val(40)]

WindValues == {Null, Val(2), Val(3), Val(5), Val(9), Val(15)}

WindFrames ==
    {Table(SilverColumns, rows) :
        rows \in SeqsUpTo({SilverRow(0, w, Val(10)) : w \in WindValues}, MaxWindRows)}

HourlyFrames ==
    {Table(SilverColumns, rows) :
        rows \in SeqsUpTo({SilverRow(h, Val(2), pm) :
                              h \in {0, 1}, pm \in {Val(10), Val(20), Null}},
                          MaxRows)}

InitGolden ==
    /\ fs = NoFiles
    /\ dirs = {}
    /\ nuuid = 0
    /\ nmerged = 0
    /\ last = [op |-> "init"]
    /\ input \in WindFrames \cup HourlyFrames
    /\ output = None
    /\ task = None

AnalyzeWind ==
    /\ output = None
    /\ output' = [kind |-> "wind", result |-> AnalyzeWindEffect(input)]
    /\ UNCHANGED <<fs, dirs, nuuid, nmerged, last, input, task>>

AnalyzeHourly ==
    /\ output = None
    /\ output' = [kind |-> "hourly", result |-> AnalyzeHourlyPatterns(input)]
    /\ UNCHANGED <<fs, dirs, nuuid, nmerged, last, input, task>>

NextGolden ==
    \/ AnalyzeWind
    \/ AnalyzeHourly

SpecGolden == InitGolden /\ [][NextGolden]_vars

\* Two or more hours share the maximum, or the minimum, mean pm2_5.
TiedPeak(df) ==
    \/ Len(PeakRows(HourlyStats(df), "max")) >= 2
    \/ Len(PeakRows(HourlyStats(df), "min")) >= 2

(***************************************************************************)
(* C9.  When two or more hours share the maximum (or the minimum) mean     *)
(* pm2_5, analyze_hourly_patterns still completes and returns the hourly   *)
(* table.                                                                  *)
(***************************************************************************)
C9_TiesStillComplete ==
    (output.kind = "hourly" /\ TiedPeak(input))
        => /\ output.result.ok
           /\ output.result.val.rows = HourlyStats(input)

\* The wind-speed bands of the claim: <= 3, <= 7, <= 12, > 12.
Bands == <<Light, Gentle, Moderate, Strong>>

InBand(b, w) ==
    /\ ~w.null
    /\ CASE b = 1 -> w.v <= 3
         [] b = 2 -> 3 < w.v /\ w.v <= 7
         [] b = 3 -> 7 < w.v /\ w.v <= 12
         [] b = 4 -> 12 < w.v

RowsInBand(df, b) ==
    Cardinality({i \in 1..Height(df) : InBand(b, df.rows[i].wind_speed_10m)})

BandRank(category) == CHOOSE b \in 1..4 : Bands[b] = category

WindTableMatchesBands(df, rows) ==
    /\ \A b \in 1..4 :
          LET hits == {i \in 1..Len(rows) : rows[i].wind_category = Bands[b]}
          IN  IF RowsInBand(df, b) = 0
              THEN hits = {}
              ELSE /\ Cardinality(hits) = 1
                   /\ \A i \in hits : rows[i].count = RowsInBand(df, b)
    /\ \A i, j \in 1..Len(rows) :
          i < j => BandRank(rows[i].wind_category) < BandRank(rows[j].wind_category)

(***************************************************************************)
(* C10.  For every silver batch the wind-effect table has exactly one row  *)
(* per wind-speed band that holds an input row and none for a band that    *)
(* holds none, each row's count is the number of input rows of its band,   *)
(* and the rows are in the order Light, Gentle, Moderate, Strong.          *)
(***************************************************************************)
C10_WindTable ==
    output.kind = "wind"
        => /\ output.result.ok
           /\ WindTableMatchesBands(input, output.result.val.rows)

\* The extent of C10's failure: it holds of every batch without a null
\* wind speed.
WindTableWithoutNulls ==
    (/\ output.kind = "wind"
     /\ \A i \in 1..Height(input) : ~input.rows[i].wind_speed_10m.null)
        => /\ output.result.ok
           /\ WindTableMatchesBands(input, output.result.val.rows)

(***************************************************************************)
(* SpecDag: the two orchestrations of one pipeline execution.  A task (a   *)
(* stage call) is not yet started, running, succeeded or failed; the DAG   *)
(* also marks a task whose upstream failed.  Whether a call returns or     *)
(* raises depends on its arguments, the upstream API and the filesystem:   *)
(* the orchestration is checked for every outcome of every call.           *)
(***************************************************************************)
LandingTask(prefix, i) == [stage |-> "landing", prefix |-> prefix, city |-> i]

BronzeTask(prefix, i) == [stage |-> "bronze", prefix |-> prefix, city |-> i]

silver_layer_task == [stage |-> "silver", prefix |-> "all", city |-> 0]

golden_layer_task == [stage |-> "golden", prefix |-> "all", city |-> 0]

CityNumbers == 1..Len(cities)

Tasks ==
    {LandingTask(p, i) : p \in Prefixes, i \in CityNumbers}
        \cup {BronzeTask(p, i) : p \in Prefixes, i \in CityNumbers}
        \cup {silver_layer_task, golden_layer_task}

\* A mutant of the wiring: only the last city's transforms feed the merge.
UpstreamLastCityOnly(t) ==
    CASE t.stage = "landing" -> {}
      [] t.stage = "bronze" -> {LandingTask(t.prefix, t.city)}
      [] t.stage = "silver" -> {BronzeTask(p, Len(cities)) : p \in Prefixes}
      [] t.stage = "golden" -> {silver_layer_task}

\* The DAG's edges: for every zipped pair landing >> bronze >>
\* silver_layer_task, and silver_layer_task >> golden_layer_task.
Upstream(t) ==
    CASE t.stage = "landing" -> {}
      [] t.stage = "bronze" -> {LandingTask(t.prefix, t.city)}
      [] t.stage = "silver" -> {BronzeTask(p, i) : p \in Prefixes, i \in CityNumbers}
      [] t.stage = "golden" -> {silver_layer_task}

\* The runner's statements in program order: per city the two fetches and
\* the two transforms, then the merge, then the analytics.
RunnerCityCalls(i) ==
    <<LandingTask("weather_data", i), LandingTask("air_quality_data", i),
      BronzeTask("weather_data", i), BronzeTask("air_quality_data", i)>>

RECURSIVE RunnerLoop(_)
RunnerLoop(i) ==
    IF i > Len(runner_cities) THEN <<>>
    ELSE RunnerCityCalls(i) \o RunnerLoop(i + 1)

RunnerProgram == RunnerLoop(1) \o <<silver_layer_task, golden_layer_task>>

InitDag ==
    /\ fs = NoFiles
    /\ dirs = {}
    /\ nuuid = 0
    /\ nmerged = 0
    /\ last = [op |-> "init"]
    /\ input \in {[kind |-> "dag"], [kind |-> "runner"]}
    /\ output = None
    /\ task = [t \in Tasks |-> "none"]

\* The scheduler starts a task once all its upstream tasks succeeded
\* (trigger rule all_success, the operators' default).
DagStart ==
    /\ input.kind = "dag"
    /\ \E t \in Tasks :
          /\ task[t] = "none"
          /\ \A u \in Upstream(t) : task[u] = "success"
          /\ task' = [task EXCEPT ![t] = "running"]
    /\ UNCHANGED <<fs, dirs, nuuid, nmerged, last, input, output>>

\* The python_callable returns or raises (no retries are configured).
DagFinish ==
    /\ input.kind = "dag"
    /\ \E t \in Tasks, outcome \in {"success", "failed"} :
          /\ task[t] = "running"
          /\ task' = [task EXCEPT ![t] = outcome]
    /\ UNCHANGED <<fs, dirs, nuuid, nmerged, last, input, output>>

\* A task with a failed upstream is never run.
DagUpstreamFailed ==
    /\ input.kind = "dag"
    /\ \E t \in Tasks :
          /\ task[t] = "none"
          /\ \E u \in Upstream(t) : task[u] \in {"failed", "upstream_failed"}
          /\ task' = [task EXCEPT ![t] = "upstream_failed"]
    /\ UNCHANGED <<fs, dirs, nuuid, nmerged, last, input, output>>

\* The script calls its next statement when the one before it returned.
RunnerCall ==
    /\ input.kind = "runner"
    /\ \E k \in 1..Len(RunnerProgram) :
          /\ task[RunnerProgram[k]] = "none"
          /\ \A j \in 1..(k - 1) : task[RunnerProgram[j]] = "success"
          /\ task' = [task EXCEPT ![RunnerProgram[k]] = "running"]
    /\ UNCHANGED <<fs, dirs, nuuid, nmerged, last, input, output>>

\* The call returns, or raises and ends the script.
RunnerReturn ==
    /\ input.kind = "runner"
    /\ \E t \in Tasks, outcome \in {"success", "failed"} :
          /\ task[t] = "running"
          /\ task' = [task EXCEPT ![t] = outcome]
    /\ UNCHANGED <<fs, dirs, nuuid, nmerged, last, input, output>>

NextDag ==
    \/ DagStart
    \/ DagFinish
    \/ DagUpstreamFailed
    \/ RunnerCall
    \/ RunnerReturn

SpecDag == InitDag /\ [][NextDag]_vars

Started(t) == task[t] \in {"running", "success", "failed"}

\* What the claim requires to have succeeded before a task starts.
Prerequisites(t) ==
    CASE t.stage = "landing" -> {}
      [] t.stage = "bronze" -> {LandingTask(t.prefix, t.city)}
      [] t.stage = "silver" -> {u \in Tasks : u.stage = "bronze"}
      [] t.stage = "golden" -> {silver_layer_task}

(***************************************************************************)
(* C3.  In every execution of the orchestrated pipeline the silver merge   *)
(* does not start until every bronze transform has succeeded, a bronze     *)
(* transform does not start until the landing fetch of its city and        *)
(* indicator-set has succeeded, and the golden analytics does not start    *)
(* until the silver merge has succeeded.                                   *)
(***************************************************************************)
C3_StartsAfterPrerequisites ==
    \A t \in Tasks : Started(t) => \A u \in Prerequisites(t) : task[u] = "success"

\* Under the DAG the golden task runs while every other task has succeeded.
C3_Witness ==
    /\ input.kind = "dag"
    /\ task[golden_layer_task] = "running"
    /\ \A t \in Tasks \ {golden_layer_task} : task[t] = "success"

(***************************************************************************)
(* SpecPartition: fetch and bronze-transform invocations running           *)
(* concurrently (the DAG's landing and bronze tasks of one or several      *)
(* runs), interleaved at the grain of their file operations: a fetch makes *)
(* its directory and queries the API, opens its file for writing (which    *)
(* creates or truncates it), then writes the decoded body; a transform     *)
(* reads its landing file, then makes its directory and writes its parquet *)
(* file.  No two invocations of one execution share their partition key    *)
(* (run, indicator-set, city); the landing file of a transform may have    *)
(* been written by an earlier fetch.                                       *)
(***************************************************************************)
MaxInvocations == 2

\* The invocations: the stage, and the arguments that make the key.
Invocations ==
    {[stage |-> st, run |-> StrTime(d), prefix |-> p, city |-> c] :
        st \in {"landing", "bronze"}, d \in Dates, p \in Prefixes, c \in Cities}

PartitionKey(inv) == <<inv.run.text, inv.prefix, inv.city.name>>

\* The file an invocation writes: <city>.json under _get_path_to_write, or
\* <city>.parquet under the bronze _get_output_path.
OutputFile(inv) ==
    IF inv.stage = "landing"
    THEN Append(LandingWritePath(landing_zone_path, inv.run, inv.prefix).val,
                inv.city.name \o ".json")
    ELSE Append(BronzeOutputPath(bronze_layer_path, inv.run, inv.prefix).val,
                inv.city.name \o ".parquet")

\* The file a transform reads.
InputFile(inv) ==
    BronzeInputPath(landing_zone_path, inv.run, inv.prefix, inv.city.name).val

InvocationSets ==
    {S \in {{q[i] : i \in 1..MaxInvocations} :
                q \in [1..MaxInvocations -> Invocations]} :
        \A i, j \in S : i # j => PartitionKey(i) # PartitionKey(j)}

Waiting == [pc |-> "start", response |-> None, produced |-> None]

InitPartition ==
    /\ input \in InvocationSets
    /\ \E fetched \in SUBSET {i \in input : i.stage = "bronze"} :
          fs = [p \in {InputFile(i) : i \in fetched} |->
                   LET i == CHOOSE j \in fetched : InputFile(j) = p
                   IN  JsonText(ApiDocument(i.prefix, i.city))]
    /\ dirs = {}
    /\ nuuid = 0
    /\ nmerged = 0
    /\ last = [op |-> "init"]
    /\ output = {}
    /\ task = [i \in input |-> Waiting]

Access(inv, path, mode) == [inv |-> inv, path |-> path, mode |-> mode]

\* query_*_api up to the match: _get_path_to_write makes the directory,
\* requests.get answers; any status but 200 raises HTTPError.
FetchQuery(inv) ==
    /\ inv.stage = "landing"
    /\ task[inv].pc = "start"
    /\ dirs' = Mkdir(dirs, LandingWritePath(landing_zone_path, inv.run, inv.prefix).val)
    /\ \E response \in Responses(inv.prefix, inv.city) :
          task' = [task EXCEPT ![inv] =
                      [pc |-> IF response.status = 200 THEN "queried" ELSE "failed",
                       response |-> response, produced |-> None]]
    /\ UNCHANGED <<fs, nuuid, nmerged, last, input, output>>

\* (write_path / f"{city_name}.json").open("w")
FetchOpen(inv) ==
    /\ inv.stage = "landing"
    /\ task[inv].pc = "queried"
    /\ fs' = WriteFile(fs, OutputFile(inv), EmptyText)
    /\ output' = output \cup {Access(inv, OutputFile(inv), "write")}
    /\ task' = [task EXCEPT ![inv].pc = "opened"]
    /\ UNCHANGED <<dirs, nuuid, nmerged, last, input>>

\* file.write(api_response.content.decode("utf-8")) and the close.
FetchWrite(inv) ==
    /\ inv.stage = "landing"
    /\ task[inv].pc = "opened"
    /\ LET got == GetDataFromApi(fs, task[inv].response, inv.city.name,
                                 LandingWritePath(landing_zone_path, inv.run,
                                                  inv.prefix).val)
       IN  /\ fs' = got.files
           /\ task' = [task EXCEPT ![inv].pc =
                                      IF got.result = "ok" THEN "done" ELSE "failed",
                                   ![inv].produced =
                                      IF got.result = "ok"
                                      THEN task[inv].response.body.text
                                      ELSE EmptyText]
    /\ output' = output \cup {Access(inv, OutputFile(inv), "write")}
    /\ UNCHANGED <<dirs, nuuid, nmerged, last, input>>

\* open(input_path), json.load, pl.from_dict(...).with_columns(...)
TransformRead(inv) ==
    /\ inv.stage = "bronze"
    /\ task[inv].pc = "start"
    /\ IF ~Exists(fs, InputFile(inv))
       THEN /\ task' = [task EXCEPT ![inv].pc = "failed"]
            /\ UNCHANGED output
       ELSE LET content_df == BronzeTable(fs[InputFile(inv)], inv.city.name)
            IN  /\ task' = [task EXCEPT ![inv] =
                               [pc |-> IF content_df.ok THEN "read" ELSE "failed",
                                response |-> None,
                                produced |-> IF content_df.ok THEN content_df.val
                                             ELSE None]]
                /\ output' = output \cup {Access(inv, InputFile(inv), "read")}
    /\ UNCHANGED <<fs, dirs, nuuid, nmerged, last, input>>

\* _get_output_path makes the directory; content_df.write_parquet
TransformWrite(inv) ==
    /\ inv.stage = "bronze"
    /\ task[inv].pc = "read"
    /\ dirs' = Mkdir(dirs, BronzeOutputPath(bronze_layer_path, inv.run, inv.prefix).val)
    /\ fs' = WriteFile(fs, OutputFile(inv), task[inv].produced)
    /\ output' = output \cup {Access(inv, OutputFile(inv), "write")}
    /\ task' = [task EXCEPT ![inv].pc = "done"]
    /\ UNCHANGED <<nuuid, nmerged, last, input>>

FetchStep == \E inv \in input : FetchQuery(inv) \/ FetchOpen(inv) \/ FetchWrite(inv)

TransformStep == \E inv \in input : TransformRead(inv) \/ TransformWrite(inv)

NextPartition ==
    \/ FetchStep
    \/ TransformStep

SpecPartition == InitPartition /\ [][NextPartition]_vars

SilverFiles == FilesIn(fs, SilverRunDir)

RECURSIVE SumCount(_)
SumCount(rows) ==
    IF rows = <<>> THEN 0 ELSE Head(rows).count + SumCount(Tail(rows))

\* The last call was a successful analysis of the run, made after at least
\* one successful merge, and every merge of the run wrote the same batch
\* (as merges of unchanged bronze data do).
AnalyzedAfterMerges ==
    /\ last.op = "analyze"
    /\ last.result = "ok"
    /\ nmerged >= 1
    /\ \A p, q \in SilverFiles : fs[p] = fs[q]

(***************************************************************************)
(* C12.  After n >= 1 successful merges of one run over unchanged bronze   *)
(* data and one golden analysis, every golden table is computed from a     *)
(* single merged batch: its count column sums to the number of rows of one *)
(* merge output, whatever n is.                                            *)
(***************************************************************************)
C12_GoldenFromOneBatch ==
    AnalyzedAfterMerges
        => \A i \in 1..4 : \A p \in SilverFiles :
              SumCount(fs[Append(GoldenRunDir, GoldenTables[i])].rows)
                  = Height(fs[p])

\* The extent of C12's failure: the count columns sum to the rows of all
\* merge outputs of the run together.
GoldenFromAllBatches ==
    AnalyzedAfterMerges
        => \A i \in 1..4 : \A p \in SilverFiles :
              SumCount(fs[Append(GoldenRunDir, GoldenTables[i])].rows)
                  = nmerged * Height(fs[p])

====
